---- MODULE Spec2Model ----
(***************************************************************************)
(* count.py: for each path on the command line, print the path and the     *)
(* number of tokens tiktoken assigns to the file's text.                   *)
(*                                                                         *)
(* The state machine follows the script statement by statement.  The       *)
(* interpreter and library calls the script makes (open, read, the with    *)
(* block's close, tiktoken.encoding_for_model, Encoding.encode, print, the *)
(* uncaught-exception hook) are modelled by what they do for the script;   *)
(* the tokenizer's tables are scaled down to a few bytes.                  *)
(***************************************************************************)
EXTENDS Integers, Sequences, FiniteSets, TLC

\* Bounds of the model.
MaxLen == 2       \* longest file content, in bytes
MaxArgs == 3      \* most paths on the command line
MaxCalls == 3     \* most direct calls of count_tokens_in_file by the driver

Paths == {"p1", "p2"}

\* Bytes a file may hold: 'a', '<', and the two bytes of U+00E9 (0xC3 0xA9),
\* so that valid multi-byte, truncated and stray-continuation inputs all occur.
Bytes == {97, 60, 195, 169}

BoundedSeq(S, n) == UNION {[1..k -> S] : k \in 0..n}

\* What a path names on disk.
FileStates ==
    [kind : {"missing", "directory", "unreadable"}, bytes : {<<>>}]
        \cup [kind : {"file"}, bytes : BoundedSeq(Bytes, MaxLen)]

(***************************************************************************)
(* f.read() on a file opened with encoding="utf-8": bytes to code points.  *)
(* One-byte (ASCII) and two-byte sequences; anything else is a decoding    *)
(* error.                                                                  *)
(***************************************************************************)
RECURSIVE UTF8Decode(_)
UTF8Decode(b) ==
    IF b = <<>> THEN [ok |-> TRUE, text |-> <<>>]
    ELSE IF b[1] < 128
         THEN LET r == UTF8Decode(Tail(b))
              IN  [ok |-> r.ok, text |-> IF r.ok THEN <<b[1]>> \o r.text ELSE <<>>]
    ELSE IF b[1] \in 194..223 /\ Len(b) >= 2 /\ b[2] \in 128..191
         THEN LET r == UTF8Decode(SubSeq(b, 3, Len(b)))
                  c == (b[1] - 192) * 64 + (b[2] - 128)
              IN  [ok |-> r.ok, text |-> IF r.ok THEN <<c>> \o r.text ELSE <<>>]
    ELSE [ok |-> FALSE, text |-> <<>>]

(***************************************************************************)
(* tiktoken, as the script uses it.                                        *)
(***************************************************************************)
DefaultModel == "gpt-4o-mini"

ModelIds == {"gpt-4o-mini", "gpt-4", "no-such-model"}

\* tiktoken.encoding_for_model: the models it knows, and their encodings.
ModelToEncoding == [m \in {"gpt-4o-mini", "gpt-4"} |->
                        IF m = "gpt-4o-mini" THEN "o200k_base" ELSE "cl100k_base"]

KnownModel(m) == m \in DOMAIN ModelToEncoding

\* str.encode("utf-8"), which encode applies to the text before merging:
\* code points to bytes, one or two per code point.
RECURSIVE UTF8Encode(_)
UTF8Encode(t) ==
    IF t = <<>> THEN <<>>
    ELSE IF t[1] < 128 THEN <<t[1]>> \o UTF8Encode(Tail(t))
    ELSE <<192 + (t[1] \div 64), 128 + (t[1] % 64)>> \o UTF8Encode(Tail(t))

\* The encodings' merge tables over bytes, scaled down: both merge the two
\* bytes of U+00E9 into one token, cl100k_base also merges "aa".
Merges(e) ==
    IF e = "o200k_base" THEN {<<195, 169>>} ELSE {<<195, 169>>, <<97, 97>>}

\* The encodings' special tokens, scaled down: "<" stands for "<|endoftext|>".
SpecialTokens(e) == {<<60>>}

\* Encoding.encode(text) is called with its defaults (disallowed_special="all"):
\* text holding a special token's text is refused with ValueError.
HasSpecial(e, t) ==
    \E s \in SpecialTokens(e) : \E k \in 1..Len(t) :
        k + Len(s) - 1 <= Len(t) /\ SubSeq(t, k, k + Len(s) - 1) = s

\* Byte-pair merging, left to right: a mergeable pair of bytes becomes one
\* token id (256 and up), any other byte is a token of its own.
RECURSIVE BytePairs(_, _)
BytePairs(e, b) ==
    IF b = <<>> THEN <<>>
    ELSE IF Len(b) >= 2 /\ <<b[1], b[2]>> \in Merges(e)
         THEN <<256 + b[1]>> \o BytePairs(e, SubSeq(b, 3, Len(b)))
    ELSE <<b[1]>> \o BytePairs(e, Tail(b))

\* Encoding.encode(text), for text it does not refuse: the token ids.
Encode(e, t) == BytePairs(e, UTF8Encode(t))

(***************************************************************************)
(* Exceptions: the type, and the strings the exception's message holds.    *)
(***************************************************************************)
NoExc == [type |-> "None", mentions |-> {}]

KeyError(m) == [type |-> "KeyError", mentions |-> {m}]

\* OSError carries the file name: "[Errno 2] No such file or directory: 'p'".
OSErrorFor(kind, path) ==
    [type |-> CASE kind = "missing" -> "FileNotFoundError"
                [] kind = "directory" -> "IsADirectoryError"
                [] OTHER -> "PermissionError",
     mentions |-> {path}]

\* "'utf-8' codec can't decode byte ...": the codec, not the file.
UnicodeDecodeError == [type |-> "UnicodeDecodeError", mentions |-> {"utf-8"}]

\* "Encountered text corresponding to disallowed special token ...".
ValueError == [type |-> "ValueError", mentions |-> {"<|endoftext|>"}]

VARIABLES
    fs,        \* the file system: path -> what it names
    argv,      \* sys.argv[1:]
    i,         \* number of calls of count_tokens_in_file started so far
    pc,        \* the statement about to run
    filepath,  \* count_tokens_in_file's parameter
    model,     \* count_tokens_in_file's parameter
    enc,       \* local of count_tokens_in_file
    f,         \* local of count_tokens_in_file: <<>> or <<descriptor>>
    text,      \* local of count_tokens_in_file
    ret,       \* the value count_tokens_in_file returned: <<>> or <<n>>
    exc,       \* the exception being propagated
    fds,       \* the process's open file descriptors
    stdout,    \* the lines printed
    stderr,    \* the interpreter's report of an uncaught exception
    status,    \* the exit status, -1 while running
    events,    \* history: the steps taken, in order
    returns    \* history: the calls that returned: path, model, value

vars == <<fs, argv, i, pc, filepath, model, enc, f, text, ret, exc, fds,
          stdout, stderr, status, events, returns>>

Ev(kind, val) ==
    [ev |-> kind, call |-> i, path |-> filepath, model |-> model, val |-> val]

\* The lowest free descriptor, as open(2) allocates it.
NewFd == CHOOSE n \in 3..(3 + Cardinality(fds)) :
            /\ \A d \in fds : d.fd # n
            /\ \A k \in 3..(n - 1) : \E d \in fds : d.fd = k

\* f"{fp} {count}"
FormatLine(fp, n) == <<fp, " ", ToString(n)>>

\* Faulty variants of ReturnValue: a count carried over from earlier calls,
\* a count that includes an end marker, a count one short.
ReturnValueRunningTotal(e, t) == Len(Encode(e, t)) + (i - 1)

ReturnValuePlusOne(e, t) == Len(Encode(e, t)) + 1

ReturnValueMinusOne(e, t) == Len(Encode(e, t)) - 1

\* The statement `return len(enc.encode(text))`: the value returned.
ReturnValue(e, t) == Len(Encode(e, t))

(***************************************************************************)
(* count_tokens_in_file(filepath, model), statement by statement.          *)
(***************************************************************************)

\* Entering the function: fresh locals.  The call is noted after `log`.
Enter(fp, m, log) ==
    /\ i' = i + 1
    /\ filepath' = fp
    /\ model' = m
    /\ enc' = "None"
    /\ f' = <<>>
    /\ text' = <<>>
    /\ ret' = <<>>
    /\ pc' = "resolve"
    /\ events' = Append(log,
           [ev |-> "call", call |-> i + 1, path |-> fp, model |-> m, val |-> <<>>])

\* Faulty variant of Resolve: the model is not checked before the file is
\* opened (an unknown model falls back to cl100k_base).
ResolveUnchecked ==
    /\ pc = "resolve"
    /\ enc' = IF KnownModel(model) THEN ModelToEncoding[model] ELSE "cl100k_base"
    /\ pc' = "open"
    /\ events' = Append(events, Ev("resolve", <<>>))
    /\ UNCHANGED <<fs, argv, i, filepath, model, f, text, ret, exc, fds,
                   stdout, stderr, status, returns>>

\* enc = tiktoken.encoding_for_model(model)
Resolve ==
    /\ pc = "resolve"
    /\ IF KnownModel(model)
       THEN /\ enc' = ModelToEncoding[model]
            /\ pc' = "open"
            /\ exc' = exc
            /\ events' = Append(events, Ev("resolve", <<>>))
       ELSE /\ exc' = KeyError(model)
            /\ pc' = "raised"
            /\ enc' = enc
            /\ events' = Append(events, Ev("raise", <<"KeyError">>))
    /\ UNCHANGED <<fs, argv, i, filepath, model, f, text, ret, fds, stdout,
                   stderr, status, returns>>

\* Faulty variant of Open: whatever the path names is opened, and reads as
\* its (empty) content, as with a mode that creates the file.
OpenCreating ==
    /\ pc = "open"
    /\ LET d == [fd |-> NewFd, path |-> filepath]
       IN  /\ fds' = fds \cup {d}
           /\ f' = <<d>>
    /\ pc' = "read"
    /\ events' = Append(events, Ev("open", <<>>))
    /\ UNCHANGED <<fs, argv, i, filepath, model, enc, text, ret, exc, stdout,
                   stderr, status, returns>>

\* Faulty variant of Open: the file is opened for writing too and truncated.
OpenTruncating ==
    /\ pc = "open"
    /\ IF fs[filepath].kind = "file"
       THEN LET d == [fd |-> NewFd, path |-> filepath]
            IN  /\ fds' = fds \cup {d}
                /\ f' = <<d>>
                /\ fs' = [fs EXCEPT ![filepath].bytes = <<>>]
                /\ pc' = "read"
                /\ exc' = exc
                /\ events' = Append(events, Ev("open", <<>>))
       ELSE LET e == OSErrorFor(fs[filepath].kind, filepath)
            IN  /\ exc' = e
                /\ pc' = "raised"
                /\ UNCHANGED <<fds, f, fs>>
                /\ events' = Append(events, Ev("raise", <<e.type>>))
    /\ UNCHANGED <<argv, i, filepath, model, enc, text, ret, stdout, stderr,
                   status, returns>>

\* with open(filepath, "r", encoding="utf-8") as f:
Open ==
    /\ pc = "open"
    /\ IF fs[filepath].kind = "file"
       THEN LET d == [fd |-> NewFd, path |-> filepath]
            IN  /\ fds' = fds \cup {d}
                /\ f' = <<d>>
                /\ pc' = "read"
                /\ exc' = exc
                /\ events' = Append(events, Ev("open", <<>>))
       ELSE LET e == OSErrorFor(fs[filepath].kind, filepath)
            IN  /\ exc' = e
                /\ pc' = "raised"
                /\ UNCHANGED <<fds, f>>
                /\ events' = Append(events, Ev("raise", <<e.type>>))
    /\ UNCHANGED <<fs, argv, i, filepath, model, enc, text, ret, stdout,
                   stderr, status, returns>>

\* text = f.read(); a decoding error leaves the with block, which closes f.
Read ==
    /\ pc = "read"
    /\ LET d == UTF8Decode(fs[f[1].path].bytes)
       IN  IF d.ok
           THEN /\ text' = d.text
                /\ pc' = "close"
                /\ UNCHANGED <<exc, fds, f>>
                /\ events' = Append(events, Ev("read", <<>>))
           ELSE /\ exc' = UnicodeDecodeError
                /\ pc' = "raised"
                /\ fds' = fds \ {f[1]}
                /\ f' = f
                /\ text' = text
                /\ events' = Append(events, Ev("raise", <<"UnicodeDecodeError">>))
    /\ UNCHANGED <<fs, argv, i, filepath, model, enc, ret, stdout, stderr,
                   status, returns>>

\* Faulty variant of Close: the block ends without closing f.
CloseLeaking ==
    /\ pc = "close"
    /\ pc' = "encode"
    /\ events' = Append(events, Ev("close", <<>>))
    /\ UNCHANGED <<fs, argv, i, filepath, model, enc, f, text, ret, exc, fds,
                   stdout, stderr, status, returns>>

\* The end of the with block: f is closed.
Close ==
    /\ pc = "close"
    /\ fds' = fds \ {f[1]}
    /\ pc' = "encode"
    /\ events' = Append(events, Ev("close", <<>>))
    /\ UNCHANGED <<fs, argv, i, filepath, model, enc, f, text, ret, exc,
                   stdout, stderr, status, returns>>

\* return len(enc.encode(text))
EncodeReturn ==
    /\ pc = "encode"
    /\ IF HasSpecial(enc, text)
       THEN /\ exc' = ValueError
            /\ pc' = "raised"
            /\ UNCHANGED <<ret, returns>>
            /\ events' = Append(events, Ev("raise", <<"ValueError">>))
       ELSE LET n == ReturnValue(enc, text)
            IN  /\ ret' = <<n>>
                /\ pc' = "returned"
                /\ exc' = exc
                /\ events' = Append(events, Ev("return", <<n>>))
                /\ returns' = returns \cup
                       {[path |-> filepath, model |-> model, val |-> n]}
    /\ UNCHANGED <<fs, argv, i, filepath, model, enc, f, text, fds,
                   stdout, stderr, status>>

(***************************************************************************)
(* The script's body: for fp in sys.argv[1:]: print(f"{fp} {count(fp)}")   *)
(***************************************************************************)

\* The loop takes the next path and calls the function with the default model.
MainNext ==
    /\ pc = "loop"
    /\ i < Len(argv)
    /\ Enter(argv[i + 1], DefaultModel, events)
    /\ UNCHANGED <<fs, argv, exc, fds, stdout, stderr, status, returns>>

\* print(f"{fp} {...}") once the call has returned.
PrintLine ==
    /\ pc = "returned"
    /\ stdout' = Append(stdout, FormatLine(argv[i], ret[1]))
    /\ pc' = "loop"
    /\ events' = Append(events, Ev("print", ret))
    /\ UNCHANGED <<fs, argv, i, filepath, model, enc, f, text, ret, exc, fds,
                   stderr, status, returns>>

\* The loop is exhausted: the script ends, exit status 0.
MainExit ==
    /\ pc = "loop"
    /\ i = Len(argv)
    /\ pc' = "exited"
    /\ status' = 0
    /\ UNCHANGED <<fs, argv, i, filepath, model, enc, f, text, ret, exc, fds,
                   stdout, stderr, events, returns>>

\* Faulty variant of Uncaught: the loop catches the exception, reports it and
\* goes on to the next path.
UncaughtContinue ==
    /\ pc = "raised"
    /\ stderr' = Append(stderr, exc)
    /\ pc' = "loop"
    /\ UNCHANGED <<fs, argv, i, filepath, model, enc, f, text, ret, exc, fds,
                   stdout, status, events, returns>>

\* Faulty variant of Uncaught: the exception is caught and replaced by a bare
\* exit with a fixed message.
UncaughtReplaced ==
    /\ pc = "raised"
    /\ stderr' = <<[type |-> "SystemExit", mentions |-> {"error"}]>>
    /\ status' = 1
    /\ pc' = "exited"
    /\ UNCHANGED <<fs, argv, i, filepath, model, enc, f, text, ret, exc, fds,
                   stdout, events, returns>>

\* Nothing catches the exception: the interpreter prints the traceback
\* (exception type and message) and exits with status 1.
Uncaught ==
    /\ pc = "raised"
    /\ stderr' = <<exc>>
    /\ status' = 1
    /\ pc' = "exited"
    /\ UNCHANGED <<fs, argv, i, filepath, model, enc, f, text, ret, exc, fds,
                   stdout, events, returns>>

InitCommon ==
    /\ fs \in [Paths -> FileStates]
    /\ i = 0
    /\ filepath = "None"
    /\ model = "None"
    /\ enc = "None"
    /\ f = <<>>
    /\ text = <<>>
    /\ ret = <<>>
    /\ exc = NoExc
    /\ fds = {}
    /\ stdout = <<>>
    /\ stderr = <<>>
    /\ status = -1
    /\ events = <<>>
    /\ returns = {}

Init ==
    /\ InitCommon
    /\ argv \in BoundedSeq(Paths, MaxArgs)
    /\ pc = "loop"

Next == MainNext \/ Resolve \/ Open \/ Read \/ Close \/ EncodeReturn
           \/ PrintLine \/ MainExit \/ Uncaught

Spec == Init /\ [][Next]_vars

(***************************************************************************)
(* count_tokens_in_file called directly, with any path and any model       *)
(* identifier, by a driver that calls again once the call is over.  The    *)
(* frame is gone then, and `events` holds the steps of one call.           *)
(***************************************************************************)
Call ==
    /\ pc = "idle"
    /\ i < MaxCalls
    /\ \E fp \in Paths, m \in ModelIds : Enter(fp, m, <<>>)
    /\ exc' = NoExc
    /\ UNCHANGED <<fs, argv, fds, stdout, stderr, status, returns>>

Returned ==
    /\ pc \in {"returned", "raised"}
    /\ pc' = "idle"
    /\ filepath' = "None"
    /\ model' = "None"
    /\ enc' = "None"
    /\ f' = <<>>
    /\ text' = <<>>
    /\ ret' = <<>>
    /\ exc' = NoExc
    /\ events' = <<>>
    /\ UNCHANGED <<fs, argv, i, fds, stdout, stderr, status, returns>>

InitCall ==
    /\ InitCommon
    /\ argv = <<>>
    /\ pc = "idle"

NextCall == Call \/ Resolve \/ Open \/ Read \/ Close \/ EncodeReturn \/ Returned

SpecCall == InitCall /\ [][NextCall]_vars

(***************************************************************************)
(* Vocabulary of the properties.                                           *)
(***************************************************************************)

\* The spec's FileAccessError, as Python raises it.
FileAccessErrors == {"FileNotFoundError", "IsADirectoryError", "PermissionError"}

Readable(p) == fs[p].kind = "file"

Decodable(p) == UTF8Decode(fs[p].bytes).ok

\* The number of tokens encoding e assigns to the text of the bytes b.
TokenCount(b, e) == Len(Encode(e, UTF8Decode(b).text))

DefaultEncoding == ModelToEncoding[DefaultModel]

EventsOf(kind) == {k \in DOMAIN events : events[k].ev = kind}

PrintsBefore(k) == Cardinality({j \in EventsOf("print") : j < k})

\* Processing of path p raises under the default model.
Fails(p) ==
    \/ ~Readable(p)
    \/ LET d == UTF8Decode(fs[p].bytes)
       IN  ~d.ok \/ HasSpecial(DefaultEncoding, d.text)

FailingArgs == {k \in DOMAIN argv : Fails(argv[k])}

FirstFailing ==
    CHOOSE k \in DOMAIN argv :
        Fails(argv[k]) /\ \A j \in 1..(k - 1) : ~Fails(argv[j])

(***************************************************************************)
(* The run of the script (Spec).                                           *)
(***************************************************************************)

\* C1: when every path on the command line is a readable, text-decodable
\* file, the run ends normally having printed exactly one line per path, the
\* j-th line being "<argv[j]> <token count of argv[j]'s file under the default
\* model>", in the order of the arguments.
C1_AllValidPrintsAll ==
    (pc = "exited" /\ \A j \in DOMAIN argv : Readable(argv[j]) /\ Decodable(argv[j]))
        => /\ status = 0
           /\ Len(stdout) = Len(argv)
           /\ \A j \in DOMAIN argv :
                 stdout[j] = FormatLine(argv[j],
                                 TokenCount(fs[argv[j]].bytes, DefaultEncoding))

\* C2: a path that is missing, unreadable or a directory makes
\* count_tokens_in_file raise a file-access error, the run ends in error, and
\* no line is ever printed for such a path; every print directly follows the
\* normal return of the call for the same path.
C2_NoLineForUnreadablePath ==
    /\ \A j \in DOMAIN stdout : Readable(stdout[j][1])
    /\ \A k \in DOMAIN events :
          /\ (events[k].ev \in {"open", "read", "close", "return", "print"})
                => Readable(events[k].path)
          /\ (events[k].ev = "raise" /\ ~Readable(events[k].path))
                => events[k].val[1] \in FileAccessErrors
          /\ (events[k].ev = "print")
                => /\ k > 1
                   /\ events[k - 1].ev = "return"
                   /\ events[k - 1].call = events[k].call
    /\ (pc \in {"raised", "exited"} /\ i >= 1 /\ ~Readable(argv[i]))
          => /\ exc.type \in FileAccessErrors
             /\ Len(stdout) <= i - 1
             /\ (pc = "exited" => status = 1)
    /\ (i >= 1 /\ ~Readable(argv[i])) => pc \in {"resolve", "open", "raised", "exited"}

\* C2's case: the second path is missing; the first path's line is printed,
\* the run has ended in error and nothing was printed for the missing path.
C2_Witness ==
    /\ pc = "exited"
    /\ status = 1
    /\ i = 2
    /\ fs[argv[2]].kind = "missing"
    /\ Len(stdout) = 1
    /\ stderr[1].type = "FileNotFoundError"

\* C5 as stated: whenever the run fails, the diagnostic names the failing path
\* and the underlying cause, and the error arrives uncaught, cause intact.
C5_DiagnosticNamesPath ==
    (pc = "exited" /\ status = 1)
        => /\ Len(stderr) = 1
           /\ stderr[1] = exc
           /\ argv[i] \in stderr[1].mentions

\* C5, amended: a raised error is never caught, logged or retried (nothing
\* happens after it but the interpreter's report and exit status 1), the
\* report carries the exception as raised (its type and message), and the
\* message names the failing path exactly when the error is a file-access
\* error.
C5_UncaughtCauseIntact ==
    /\ \A k \in EventsOf("raise") :
          /\ k = Len(events)
          /\ pc \in {"raised", "exited"}
          /\ exc.type = events[k].val[1]
          /\ exc.type # "None"
    /\ (pc = "exited" /\ status = 1)
          => /\ EventsOf("raise") # {}
             /\ Len(stderr) = 1
             /\ stderr[1] = exc
             /\ (argv[i] \in stderr[1].mentions
                    <=> stderr[1].type \in FileAccessErrors)
    /\ (pc = "exited" /\ EventsOf("raise") # {}) => status = 1
    /\ (pc # "exited") => stderr = <<>>

\* C5's case: the run has failed on an undecodable file; the report is the
\* UnicodeDecodeError, which does not name the path.
C5_Witness ==
    /\ pc = "exited"
    /\ status = 1
    /\ stderr[1].type = "UnicodeDecodeError"
    /\ argv[i] \notin stderr[1].mentions
    /\ Readable(argv[i])

\* C8: when some path fails, the first failing path p_k ends the run: exactly
\* the lines of p_1..p_{k-1} are printed, in order, nothing is printed for p_k
\* or later paths, no later path is ever processed or opened, and the run
\* ends with exit status 1 and not 0.
C8_FirstFailureAborts ==
    (FailingArgs # {})
        => LET k == FirstFailing
           IN  /\ i <= k
               /\ Len(stdout) <= k - 1
               /\ \A e \in DOMAIN events : events[e].call <= k
               /\ \A j \in DOMAIN stdout :
                     stdout[j] = FormatLine(argv[j],
                                     TokenCount(fs[argv[j]].bytes, DefaultEncoding))
               /\ (pc = "exited")
                     => /\ status = 1
                        /\ i = k
                        /\ Len(stdout) = k - 1
                        /\ stderr # <<>>

\* C8's case: three paths, the second fails, the third is a file that would
\* have been counted; the run has ended with one line printed.
C8_Witness ==
    /\ pc = "exited"
    /\ status = 1
    /\ Len(argv) = 3
    /\ FirstFailing = 2
    /\ ~Fails(argv[3])
    /\ Len(stdout) = 1

\* C9: files are processed one at a time: at most one file is open at any
\* time, it is the current path's, and whenever the call for the k-th path is
\* under way (in particular when its file is opened) the lines of all k-1
\* earlier paths are already printed.
C9_OneFileAtATime ==
    /\ Cardinality(fds) <= 1
    /\ \A d \in fds : d.path = argv[i] /\ pc \in {"read", "close"}
    /\ (pc \in {"resolve", "open", "read", "close", "encode", "returned"})
          => Len(stdout) = i - 1
    /\ \A k \in EventsOf("open") : PrintsBefore(k) = events[k].call - 1
    /\ \A k \in DOMAIN events :
          (k > 1) => events[k - 1].call <= events[k].call

\* C9's case: the second path's file is open, the first path's line is
\* already printed.
C9_Witness ==
    /\ pc = "read"
    /\ i = 2
    /\ Cardinality(fds) = 1
    /\ Len(stdout) = 1

\* C10: a run leaves every file as it was, keeps no file open after the call
\* that opened it, and the count printed for a path depends only on the
\* file's content: lines for paths with equal content carry equal counts,
\* whatever their position and whatever was processed before.
C10_NoSharedStateNoWrites ==
    /\ [][fs' = fs]_vars
    /\ [](\A j \in DOMAIN stdout : \A k \in DOMAIN stdout :
             (fs[stdout[j][1]].bytes = fs[stdout[k][1]].bytes)
                 => stdout[j][3] = stdout[k][3])

\* C10's case: the same two-token file was counted first and third, with a
\* one-token file in between.
C10_Witness ==
    /\ Len(stdout) = 3
    /\ stdout[1][1] # stdout[2][1]
    /\ stdout[1][1] = stdout[3][1]
    /\ stdout[1][3] = "2"
    /\ stdout[2][3] = "1"
    /\ stdout[3][3] = "2"

(***************************************************************************)
(* Direct calls of count_tokens_in_file (SpecCall).                        *)
(***************************************************************************)

\* C3: count_tokens_in_file is deterministic: any two calls that return, on
\* files of equal content and with the same model identifier, return the
\* same integer.
C3_Deterministic ==
    \A a \in returns : \A b \in returns :
        (fs[a.path].bytes = fs[b.path].bytes /\ a.model = b.model)
            => a.val = b.val

\* C3's case: two calls with the same model have returned, on two files of
\* the same two-byte content.
C3_Witness ==
    \E a \in returns : \E b \in returns :
        /\ a.path # b.path
        /\ a.model = b.model
        /\ fs[a.path].bytes = fs[b.path].bytes
        /\ Len(fs[a.path].bytes) = 2

\* C4: with a model identifier that names no encoding, count_tokens_in_file
\* raises the unknown-model error (KeyError) whatever the path is, and the
\* call never opens or reads the file.
C4_UnknownModelFirst ==
    /\ \A k \in DOMAIN events :
          (~KnownModel(events[k].model))
              => /\ events[k].ev \in {"call", "raise"}
                 /\ (events[k].ev = "raise") => events[k].val = <<"KeyError">>
    /\ (pc # "idle" /\ ~KnownModel(model))
          => /\ pc \in {"resolve", "raised"}
             /\ (pc = "raised") => exc = KeyError(model)
             /\ fds = {}
    /\ \A r \in returns : KnownModel(r.model)

\* C4's case: an unknown model and a missing path: KeyError is what is raised.
C4_Witness ==
    /\ pc = "raised"
    /\ ~KnownModel(model)
    /\ fs[filepath].kind = "missing"
    /\ exc.type = "KeyError"

\* C6: on an empty file, with any known model, count_tokens_in_file returns 0
\* (and does not raise).
C6_EmptyFileIsZero ==
    \A k \in DOMAIN events :
        (/\ Readable(events[k].path)
         /\ fs[events[k].path].bytes = <<>>
         /\ KnownModel(events[k].model))
            => /\ events[k].ev # "raise"
               /\ (events[k].ev = "return") => events[k].val = <<0>>
               /\ \A r \in returns :
                     (r.path = events[k].path /\ r.model = events[k].model)
                         => r.val = 0

\* C6's case: calls on an empty file have returned under both known models.
C6_Witness ==
    \E a \in returns : \E b \in returns :
        /\ fs[a.path].bytes = <<>>
        /\ fs[b.path].bytes = <<>>
        /\ a.model = "gpt-4o-mini"
        /\ b.model = "gpt-4"

\* C7: every value count_tokens_in_file returns is a non-negative integer,
\* and it is at least 1 when the file is not empty.
C7_CountNonNegative ==
    /\ \A r \in returns :
          /\ r.val \in Nat
          /\ (fs[r.path].bytes # <<>>) => r.val >= 1
    /\ (pc = "returned")
          => /\ ret[1] \in Nat
             /\ (fs[filepath].bytes # <<>>) => ret[1] >= 1

\* C7's case: a two-byte file was counted as a single token.
C7_Witness ==
    \E r \in returns :
        /\ Len(fs[r.path].bytes) = 2
        /\ r.val = 1

====
